---- MODULE Spec2Model ----
(***************************************************************************)
(* Model of ccd2iso.convert (src/ccd2iso/__init__.py): the loop that walks *)
(* a CloneCD .img byte stream sector by sector and writes each sector's    *)
(* 2048-byte user data to the destination stream.                          *)
(*                                                                         *)
(* Bytes are integers 0..255, byte strings are sequences of bytes.  The    *)
(* three collaborators are modelled by their contracts: src_file.read(n)   *)
(* returns the next n bytes, fewer only at end of stream; dst_file.write   *)
(* appends all the bytes it is given; the progress bar's update(value)     *)
(* records the value and returns (what the progressbar library itself does *)
(* with a value above max_value is outside this module).  Every call on a  *)
(* collaborator is logged in trace, in program order.                      *)
(***************************************************************************)
EXTENDS Integers, Sequences, FiniteSets, TLC

(* ------------------------------ bounds -------------------------------- *)

\* Largest number of complete sectors in an input image.
MaxSectors == 2

(* ------------------------- program constants -------------------------- *)

DATA_SIZE == 2048

\* sizeof(c_ubyte)
c_ubyte == 1

\* Python's None (the default of parameter size; an absent message field).
None == -1

\* progressbar.UnknownLength
UnknownLength == -2

(* ---------------------- ctypes structure layouts ---------------------- *)

RECURSIVE SumSizes(_, _)
SumSizes(fields, n) ==
    IF n = 0 THEN 0 ELSE SumSizes(fields, n - 1) + fields[n].size

\* sizeof of a ctypes Structure of byte arrays: the fields laid out in
\* order, without padding (every field has alignment 1).
StructSize(fields) == SumSizes(fields, Len(fields))

\* Offset of the field called name in a Structure.
FieldOffset(fields, name) ==
    LET i == CHOOSE k \in 1..Len(fields) : fields[k].name = name
    IN  SumSizes(fields, i - 1)

FieldSize(fields, name) ==
    LET i == CHOOSE k \in 1..Len(fields) : fields[k].name = name
    IN  fields[i].size

Max(a, b) == IF a >= b THEN a ELSE b

Min(a, b) == IF a <= b THEN a ELSE b

ccd_sectheader_header ==
    << [name |-> "sectaddr_min",  size |-> c_ubyte],
       [name |-> "sectaddr_sec",  size |-> c_ubyte],
       [name |-> "sectaddr_frac", size |-> c_ubyte],
       [name |-> "mode",          size |-> c_ubyte] >>

ccd_sectheader ==
    << [name |-> "synchronization", size |-> c_ubyte * 12],
       [name |-> "header",          size |-> StructSize(ccd_sectheader_header)] >>

ccd_mode1 ==
    << [name |-> "data",   size |-> c_ubyte * DATA_SIZE],
       [name |-> "edc",    size |-> c_ubyte * 4],
       [name |-> "unused", size |-> c_ubyte * 8],
       [name |-> "ecc",    size |-> c_ubyte * 276] >>

ccd_mode2 ==
    << [name |-> "sectsubheader", size |-> c_ubyte * 8],
       [name |-> "data",          size |-> c_ubyte * DATA_SIZE],
       [name |-> "edc",           size |-> c_ubyte * 4],
       [name |-> "ecc",           size |-> c_ubyte * 276] >>

\* A Union is as large as its largest member; every member starts at 0.
ccd_content_size == Max(StructSize(ccd_mode1), StructSize(ccd_mode2))

ccd_sector ==
    << [name |-> "sectheader", size |-> StructSize(ccd_sectheader)],
       [name |-> "content",    size |-> ccd_content_size] >>

\* sizeof(ccd_sector): also what sizeof(src_sect) returns for any instance.
sizeof_ccd_sector == StructSize(ccd_sector)

\* Offsets into a sector buffer (0-based, as in the structures).
ModeOffset ==
    FieldOffset(ccd_sector, "sectheader")
    + FieldOffset(ccd_sectheader, "header")
    + FieldOffset(ccd_sectheader_header, "mode")

\* The data offset within the content region, taken for the offset in the
\* sector.
Mode1DataOffsetNoHeader == FieldOffset(ccd_mode1, "data")

Mode1DataOffset ==
    FieldOffset(ccd_sector, "content") + FieldOffset(ccd_mode1, "data")

\* Mode 2 read with the layout of mode 1: the sub-header is not skipped.
Mode2DataOffsetNoSubheader ==
    FieldOffset(ccd_sector, "content") + FieldOffset(ccd_mode1, "data")

Mode2DataOffset ==
    FieldOffset(ccd_sector, "content") + FieldOffset(ccd_mode2, "data")

\* bytes[off : off + n]
Slice(bytes, off, n) == SubSeq(bytes, off + 1, Min(off + n, Len(bytes)))

\* src_sect.sectheader.header.mode
SectMode(buf) == buf[ModeOffset + 1]

\* src_sect.content.mode1.data
Mode1Data(buf) == Slice(buf, Mode1DataOffset, FieldSize(ccd_mode1, "data"))

\* src_sect.content.mode2.data
Mode2Data(buf) == Slice(buf, Mode2DataOffset, FieldSize(ccd_mode2, "data"))

\* The bytes literal b'\xe2' the mode is compared with.
SessionMarkerLiteral == << 226 >>

\* Python's  mode == b'\xe2'  for an int mode: int and bytes never compare
\* equal, whatever their values.
IntEqualsBytes(i, b) == FALSE

(* ------------------------------- state -------------------------------- *)

VARIABLES
    src,        \* the bytes of src_file
    pos,        \* src_file's read position
    dst,        \* the bytes written to dst_file so far
    size,       \* parameter size (None when absent)
    progress,   \* parameter progress
    sect_num,   \* local sect_num
    max_value,  \* local max_value
    pc,         \* "idle", "loop", "returned" or "raised"
    exc,        \* the exception that left convert, NoExc if none
    trace,      \* the calls made on the collaborators, in order
    prev        \* the previous call of convert: its arguments and outcome

vars == << src, pos, dst, size, progress, sect_num, max_value, pc, exc,
           trace, prev >>

NoExc == [type |-> "none", sect_num |-> None, mode |-> None,
          got |-> None, expected |-> None]

\* IncompleteSectorError('... Sector %d is incomplete, with only %d bytes
\* instead of %d ...' % (sect_num, sizeof(src_sect), expected_size))
IncompleteSectorError(n, got, expected) ==
    [type |-> "IncompleteSectorError", sect_num |-> n, mode |-> None,
     got |-> got, expected |-> expected]

\* SessionMarkerError('Error: Found a session marker ...'): no arguments.
SessionMarkerError ==
    [type |-> "SessionMarkerError", sect_num |-> None, mode |-> None,
     got |-> None, expected |-> None]

\* The two arguments of the message in the wrong order.
UnrecognizedSectorModeErrorSwapped(m, n) ==
    [type |-> "UnrecognizedSectorModeError", sect_num |-> m, mode |-> n,
     got |-> None, expected |-> None]

\* UnrecognizedSectorModeError('... mode (%x) at sector %d!' % (mode, sect_num))
UnrecognizedSectorModeError(m, n) ==
    [type |-> "UnrecognizedSectorModeError", sect_num |-> n, mode |-> m,
     got |-> None, expected |-> None]

\* ctypes' from_buffer_copy on a buffer shorter than the structure:
\* ValueError('Buffer size too small (%d instead of at least %d bytes)').
BufferTooSmall(got, expected) ==
    [type |-> "ValueError", sect_num |-> None, mode |-> None,
     got |-> got, expected |-> expected]

NoPrev == [called |-> FALSE, src |-> << >>, size |-> None,
           progress |-> FALSE, dst |-> << >>, pc |-> "idle", exc |-> NoExc,
           sect_num |-> 0]

(* ------------------------------- inputs ------------------------------- *)

\* Mode bytes the input sectors are drawn from: the two data modes, the
\* session marker 0xE2, and two unsupported values.
Modes == {0, 1, 2, 3, 226}

\* Lengths of the partial sector that may follow the complete ones.
Tails == {0, 16, 2351}

\* Variants of the bytes outside the mode byte and the user data.
Junks == {0, 1}

\* The user-data byte at offset p of sector i: it differs between
\* neighbouring offsets and between sectors.
DataByte(i, p) == (i * 101 + p * 7 + 1) % 256

\* A byte outside the user data (synchronization, address, sub-header, EDC,
\* unused, ECC), in variant j.
JunkByte(i, p, j) == (DataByte(i, p) + 100 + 50 * j) % 256

\* Whether offset p of a sector record of mode m is user data, in the
\* CloneCD image format: 2048 bytes from offset 16 in mode 1 and from
\* offset 24 in mode 2.
InPayload(m, p) ==
    \/ m = 1 /\ p >= 16 /\ p < 16 + 2048
    \/ m = 2 /\ p >= 24 /\ p < 24 + 2048

\* The 2352-byte record of sector i with mode byte m (at offset 15) and
\* junk variant j.
MkSector(i, m, j) ==
    [q \in 1..2352 |->
        LET p == q - 1 IN
        IF p = 15 THEN m
        ELSE IF InPayload(m, p) THEN DataByte(i, p)
        ELSE JunkByte(i, p, j)]

RECURSIVE Concat(_, _, _)
\* The records of the sectors with mode bytes ms[1..n], one after another.
Concat(ms, n, j) ==
    IF n = 0 THEN << >>
    ELSE Concat(ms, n - 1, j) \o MkSector(n - 1, ms[n], j)

\* An image: the sectors with modes ms, then the first t bytes of one more
\* mode-1 sector.
MkImage(ms, t, j) ==
    Concat(ms, Len(ms), j) \o Slice(MkSector(Len(ms), 1, j), 0, t)

ModeSeqs == UNION { [1..n -> Modes] : n \in 0..MaxSectors }

\* The mode bytes of the complete sectors of an image.
ModesOf(img) ==
    [k \in 1..(Len(img) \div 2352) |-> img[(k - 1) * 2352 + 15 + 1]]

\* Size hints for an image of L bytes: absent, 0, smaller than L, L,
\* larger than L.
Hints(L) == {None, 0, L, L + 2352}
            \cup (IF L > 0 THEN {L - 1} ELSE {})

(* ------------------------------ convert ------------------------------- *)

\* int(size/expected_size) if size else progressbar.UnknownLength
MaxValue(sz, expected_size) ==
    IF sz = None \/ sz = 0 THEN UnknownLength ELSE sz \div expected_size

\* src_file.read(n) at position p: the next n bytes, fewer at the end.
Read(bytes, p, n) == Slice(bytes, p, n)

Event(op, n) == [op |-> op, n |-> n]

\* The start of convert: the locals are set and the loop is entered.
Enter(img, sz, pr) ==
    /\ src' = img
    /\ pos' = 0
    /\ dst' = << >>
    /\ size' = sz
    /\ progress' = pr
    /\ sect_num' = 0
    /\ max_value' = MaxValue(sz, sizeof_ccd_sector)
    /\ pc' = "loop"
    /\ exc' = NoExc
    /\ trace' = << >>

\* A first call of convert, as main makes it: on any image, with the
\* image's length as the hint.
Call ==
    /\ pc = "idle"
    /\ \E ms \in ModeSeqs, t \in Tails, pr \in BOOLEAN :
         LET img == MkImage(ms, t, 0) IN Enter(img, Len(img), pr)
    /\ UNCHANGED prev

Snapshot == [called |-> TRUE, src |-> src, size |-> size,
             progress |-> progress, dst |-> dst, pc |-> pc, exc |-> exc,
             sect_num |-> sect_num]

\* A second call of convert on fresh streams: on the same bytes with any
\* hint and progress flag, or on an image that differs only outside the mode
\* bytes and the user data.
CallAgain ==
    /\ pc \in {"returned", "raised"}
    /\ ~prev.called
    /\ prev' = Snapshot
    /\ \/ \E sz \in Hints(Len(src)), pr \in BOOLEAN : Enter(src, sz, pr)
       \/ \E j \in Junks \ {0} :
            Enter(MkImage(ModesOf(src), Len(src) % 2352, j),
                  size, progress)

\* The loop condition  bytes_read := src_file.read(expected_size): a bytes
\* object is true unless it is empty.
LoopWhileExpected(bytes_read) ==
    /\ bytes_read # << >>
    /\ (max_value = UnknownLength \/ sect_num < max_value)

LoopAlways(bytes_read) == TRUE

LoopCondition(bytes_read) == bytes_read # << >>

\* ccd_sector.from_buffer_copy(bytes_read) succeeds when the buffer holds at
\* least sizeof(ccd_sector) bytes and raises ValueError otherwise.
BufferFits(bytes_read) == Len(bytes_read) >= sizeof_ccd_sector

\* sizeof(src_sect): the size of the structure, whatever it was built from.
sizeof_src_sect == sizeof_ccd_sector

\* The body of the loop up to the write, on the bytes just read, in sector
\* n: the bytes to write (raise = FALSE) or the exception (raise = TRUE).
Dispatch(bytes_read, n) ==
    LET expected_size == sizeof_ccd_sector
        mode == SectMode(bytes_read)
    IN
    IF ~BufferFits(bytes_read)
    THEN [raise |-> TRUE,
          exc |-> BufferTooSmall(Len(bytes_read), sizeof_ccd_sector)]
    ELSE IF sizeof_src_sect < expected_size
    THEN [raise |-> TRUE,
          exc |-> IncompleteSectorError(n, sizeof_src_sect, expected_size)]
    ELSE IF mode = 1
    THEN [raise |-> FALSE, data |-> Mode1Data(bytes_read)]
    ELSE IF mode = 2
    THEN [raise |-> FALSE, data |-> Mode2Data(bytes_read)]
    ELSE IF IntEqualsBytes(mode, SessionMarkerLiteral)
    THEN [raise |-> TRUE, exc |-> SessionMarkerError]
    ELSE [raise |-> TRUE, exc |-> UnrecognizedSectorModeError(mode, n)]

UpdateStale(pr, n) == IF pr THEN << Event("update", n - 1) >> ELSE << >>

\* if progress: context.update(sect_num)
Update(pr, n) == IF pr THEN << Event("update", n) >> ELSE << >>

\* As Iterate, but a sector that cannot be converted is skipped and the loop
\* goes on.
IterateResume ==
    /\ pc = "loop"
    /\ LET bytes_read == Read(src, pos, sizeof_ccd_sector)
           rd == Event("read", Len(bytes_read))
       IN
       /\ pos' = pos + Len(bytes_read)
       /\ IF ~LoopCondition(bytes_read)
          THEN /\ pc' = "returned"
               /\ trace' = Append(trace, rd)
               /\ UNCHANGED << dst, sect_num, exc >>
          ELSE LET r == Dispatch(bytes_read, sect_num) IN
               IF r.raise
               THEN /\ exc' = r.exc
                    /\ sect_num' = sect_num + 1
                    /\ trace' = Append(trace, rd)
                    /\ UNCHANGED << dst, pc >>
               ELSE /\ dst' = dst \o r.data
                    /\ sect_num' = sect_num + 1
                    /\ trace' = Append(trace, rd)
                                \o << Event("write", Len(r.data)) >>
                                \o Update(progress, sect_num + 1)
                    /\ UNCHANGED << pc, exc >>
    /\ UNCHANGED << src, size, progress, max_value, prev >>

\* One evaluation of the loop condition and, if it holds, of the loop body:
\* read, build the sector, write its data or raise, count, report.
Iterate ==
    /\ pc = "loop"
    /\ LET bytes_read == Read(src, pos, sizeof_ccd_sector)
           rd == Event("read", Len(bytes_read))
       IN
       /\ pos' = pos + Len(bytes_read)
       /\ IF ~LoopCondition(bytes_read)
          THEN /\ pc' = "returned"
               /\ trace' = Append(trace, rd)
               /\ UNCHANGED << dst, sect_num, exc >>
          ELSE LET r == Dispatch(bytes_read, sect_num) IN
               IF r.raise
               THEN /\ pc' = "raised"
                    /\ exc' = r.exc
                    /\ trace' = Append(trace, rd)
                    /\ UNCHANGED << dst, sect_num >>
               ELSE /\ dst' = dst \o r.data
                    /\ sect_num' = sect_num + 1
                    /\ trace' = Append(trace, rd)
                                \o << Event("write", Len(r.data)) >>
                                \o Update(progress, sect_num + 1)
                    /\ UNCHANGED << pc, exc >>
    /\ UNCHANGED << src, size, progress, max_value, prev >>

Init ==
    /\ src = << >>
    /\ pos = 0
    /\ dst = << >>
    /\ size = None
    /\ progress = FALSE
    /\ sect_num = 0
    /\ max_value = UnknownLength
    /\ pc = "idle"
    /\ exc = NoExc
    /\ trace = << >>
    /\ prev = NoPrev

Next == Call \/ CallAgain \/ Iterate

Spec == Init /\ [][Next]_vars

(* ------------------------ what the claims speak of -------------------- *)

Finished == pc \in {"returned", "raised"}

\* The number of complete 2352-byte sectors of an image.
SectorCount(img) == Len(img) \div 2352

\* The mode byte (offset 15) of sector k, counted from 0.
ModeByte(img, k) == img[k * 2352 + 15 + 1]

\* The payload of sector k: record bytes [16, 16+2048) for mode 1 and
\* [24, 24+2048) for mode 2.
Payload(img, k) ==
    IF ModeByte(img, k) = 1
    THEN SubSeq(img, k * 2352 + 16 + 1, k * 2352 + 16 + 2048)
    ELSE IF ModeByte(img, k) = 2
    THEN SubSeq(img, k * 2352 + 24 + 1, k * 2352 + 24 + 2048)
    ELSE << >>

RECURSIVE Payloads(_, _)
\* The payloads of sectors 0..n-1, in input order.
Payloads(img, n) ==
    IF n = 0 THEN << >> ELSE Payloads(img, n - 1) \o Payload(img, n - 1)

RECURSIVE ValidFrom(_, _)
\* The number of complete sectors with mode byte 1 or 2 from sector k on,
\* up to the first sector that is neither.
ValidFrom(img, k) ==
    IF k < SectorCount(img) /\ ModeByte(img, k) \in {1, 2}
    THEN 1 + ValidFrom(img, k + 1)
    ELSE 0

\* The index of the first sector that is not a complete mode-1 or mode-2
\* sector (the number of sectors, if all are).
FirstBad(img) == ValidFrom(img, 0)

\* The calls logged in trace with operation op.
Calls(op) == { i \in 1..Len(trace) : trace[i].op = op }

(* C1: an input of N >= 1 complete sectors, each of mode 1 or 2, converts
   without error, and on return the sink holds exactly 2048*N bytes: the
   payloads of the sectors, in input order. *)
C1_ValidImageConverted ==
    LET N == SectorCount(src) IN
    (pc # "idle" /\ N >= 1 /\ Len(src) = N * 2352 /\ FirstBad(src) = N)
    => /\ pc # "raised"
       /\ exc = NoExc
       /\ pc = "returned"
          => /\ Len(dst) = 2048 * N
             /\ dst = Payloads(src, N)
             /\ sect_num = N

C1_Witness ==
    /\ pc = "returned"
    /\ SectorCount(src) = 2
    /\ Len(src) = 2 * 2352
    /\ ModeByte(src, 0) = 1
    /\ ModeByte(src, 1) = 2
    /\ Len(dst) = 2 * 2048

(* C2: an input of k complete mode-1 or mode-2 sectors followed by r bytes,
   0 < r < 2352, fails with IncompleteSectorError reporting sector k,
   r bytes received and 2352 expected, and nothing of the partial sector
   is written. *)
C2_IncompleteSectorReported ==
    LET k == SectorCount(src)
        r == Len(src) % 2352
    IN
    (Finished /\ r > 0 /\ FirstBad(src) = k)
    => /\ pc = "raised"
       /\ exc.type = "IncompleteSectorError"
       /\ exc.sect_num = k
       /\ exc.got = r
       /\ exc.expected = 2352
       /\ dst = Payloads(src, k)

(* C3: when sectors 0..i-1 are complete with mode 1 or 2 and the complete
   sector i has mode byte 0xE2, the run writes the payloads of sectors
   0..i-1 and fails with SessionMarkerError, not with
   UnrecognizedSectorModeError. *)
C3_SessionMarkerReported ==
    LET i == FirstBad(src) IN
    (Finished /\ i < SectorCount(src) /\ ModeByte(src, i) = 226)
    => /\ pc = "raised"
       /\ exc.type = "SessionMarkerError"
       /\ dst = Payloads(src, i)

(* C4: when sectors 0..i-1 are complete with mode 1 or 2 and the complete
   sector i has a mode byte m outside {1, 2, 0xE2}, the run fails with
   UnrecognizedSectorModeError reporting sector i and mode m, and nothing
   is written for sector i. *)
C4_UnrecognizedModeReported ==
    LET i == FirstBad(src) IN
    (pc # "idle" /\ i < SectorCount(src) /\ ModeByte(src, i) \notin {1, 2, 226})
    => /\ pc # "returned"
       /\ sect_num <= i
       /\ Finished
          => /\ pc = "raised"
             /\ exc.type = "UnrecognizedSectorModeError"
             /\ exc.sect_num = i
             /\ exc.mode = ModeByte(src, i)
             /\ dst = Payloads(src, i)
             /\ Cardinality(Calls("write")) = i

C4_Witness ==
    /\ pc = "raised"
    /\ SectorCount(src) = 2
    /\ ModeByte(src, 0) = 2
    /\ ModeByte(src, 1) = 0
    /\ exc.type = "UnrecognizedSectorModeError"
    /\ exc.sect_num = 1
    /\ exc.mode = 0

(* C5: on an empty input convert returns without raising, writes nothing
   to the sink and reports no progress. *)
C5_EmptyInput ==
    (pc # "idle" /\ src = << >>)
    => /\ pc # "raised"
       /\ exc = NoExc
       /\ dst = << >>
       /\ Calls("write") = {}
       /\ Calls("update") = {}
       /\ pc = "returned" => trace = << Event("read", 0) >>

C5_Witness ==
    /\ pc = "returned"
    /\ src = << >>
    /\ progress
    /\ trace = << Event("read", 0) >>

(* C6: with progress on, every processed sector k = 1, 2, 3, ... gives one
   read, then one write of its payload, then one progress update with the
   count k; nothing else is reported, and a failing read is the last call
   of the run. *)
C6_ProgressPerSector ==
    (pc # "idle" /\ progress)
    => /\ Cardinality(Calls("update")) = sect_num
       /\ \A k \in 1..sect_num :
            /\ trace[3 * k - 2].op = "read"
            /\ trace[3 * k - 1] = Event("write", 2048)
            /\ trace[3 * k] = Event("update", k)
       /\ Len(trace) = 3 * sect_num + (IF Finished THEN 1 ELSE 0)
       /\ Finished => trace[Len(trace)].op = "read"

C6_Witness ==
    /\ progress
    /\ pc = "raised"
    /\ sect_num = 2
    /\ Calls("update") = {3, 6}
    /\ Len(trace) = 7

(* C7: once an exception has been raised, in sector i, convert has stopped:
   the failing read is the last call on the streams, no step of the loop
   can follow, and the sink holds exactly the payloads of sectors 0..i-1. *)
C7_StopsAtFailure ==
    exc # NoExc
    => /\ pc = "raised"
       /\ ~ ENABLED Iterate
       /\ trace[Len(trace)].op = "read"
       /\ Cardinality(Calls("read")) = sect_num + 1
       /\ Cardinality(Calls("write")) = sect_num
       /\ sect_num = FirstBad(src)
       /\ dst = Payloads(src, sect_num)

C7_Witness ==
    /\ pc = "raised"
    /\ exc # NoExc
    /\ sect_num = 1
    /\ SectorCount(src) = 2
    /\ Len(dst) = 2048

SamePayloads(a, b) ==
    /\ Len(a) = Len(b)
    /\ \A k \in 0..(SectorCount(a) - 1) :
         /\ ModeByte(a, k) = ModeByte(b, k)
         /\ Payload(a, k) = Payload(b, k)

(* C9: two runs on images of the same length that agree on every mode byte
   and on the 2048 payload bytes the mode selects end with the same sink
   content and the same result, whatever the other bytes are. *)
C9_OnlyModeAndPayloadMatter ==
    (prev.called /\ Finished /\ size = prev.size /\ progress = prev.progress
     /\ SamePayloads(prev.src, src))
    => /\ dst = prev.dst
       /\ pc = prev.pc
       /\ exc = prev.exc
       /\ sect_num = prev.sect_num

C9_Witness ==
    /\ prev.called
    /\ pc = "returned"
    /\ SamePayloads(prev.src, src)
    /\ prev.src # src
    /\ SectorCount(src) = 2
    /\ ModeByte(src, 0) = 1
    /\ ModeByte(src, 1) = 2
    /\ src[1] # prev.src[1]
    /\ src[17] = prev.src[17]
    /\ src[2352 + 17] # prev.src[2352 + 17]
    /\ dst = prev.dst
    /\ Len(dst) = 2 * 2048

(* C10: a run makes at most floor(L/2352) + 1 reads, ends in exactly one of
   success, IncompleteSectorError, SessionMarkerError and
   UnrecognizedSectorModeError, and the sink always holds 2048 bytes per
   counted sector. *)
C10_FourOutcomes ==
    /\ Cardinality(Calls("read")) <= SectorCount(src) + 1
    /\ Len(dst) = 2048 * sect_num
    /\ pc = "returned" => exc = NoExc
    /\ pc = "raised"
       => exc.type \in {"IncompleteSectorError", "SessionMarkerError",
                        "UnrecognizedSectorModeError"}

====
